---- MODULE Spec2Model ----
(***************************************************************************)
(* A model of the SindicoApp client (React + Supabase + Stripe).           *)
(*                                                                         *)
(* SpecAuth  : AuthProvider (initializeAuth, onAuthStateChange handler),   *)
(*             the routes of AppContent / Layout, the sign-up form with    *)
(*             handlePlanSelection, and the hosted services they talk to   *)
(*             (accounts, sessions, subscription rows, checkout).          *)
(*                                                                         *)
(* SpecMaint : the Maintenance page (loaders, onSubmit, uploadPhotos,       *)
(*             updateStatus, finalizeMaintenance, uploadAfterPhotos,       *)
(*             deleteMaintenance, the modals) over the maintenance_requests*)
(*             table and the photo bucket.                                 *)
(*                                                                         *)
(* SpecFinalize : the same page with requests in progress, restricted to   *)
(*             the controls that finalize them.                            *)
(*                                                                         *)
(* SpecRLS   : the tables with row level security, as the queries of the   *)
(*             pages reach them on behalf of several users.                *)
(*                                                                         *)
(* SpecDash  : the Dashboard (the effect on filter changes,                *)
(*             loadDashboardData and its aggregates) over any small list   *)
(*             of maintenance requests.                                    *)
(*                                                                         *)
(* SpecReports : the Reports page (generateReport: the query, the          *)
(*             aggregates, the saved report) over any small list of        *)
(*             maintenance requests.                                       *)
(*                                                                         *)
(* SpecPDF   : exportToPDF of the Reports page: the canvas of the report,  *)
(*             the page loop and the saved document, for any small size    *)
(*             of the rendered report.                                     *)
(*                                                                         *)
(* Every asynchronous handler is cut at its awaits: one action issues a    *)
(* remote call, a later action is the call returning, and anything else    *)
(* may happen in between.                                                  *)
(***************************************************************************)
EXTENDS Integers, Sequences, FiniteSets, Bags, TLC

NULL == "null"

\* ------------------------------------------------------------------ bounds
\* e-mail addresses that people use to sign up / sign in
Emails == {"e1", "e2"}
\* onAuthStateChange handler invocations that may be awaiting their lookup
MaxHandlers == 1
\* maintenance requests ever created
MaxReqs == 1
\* maintenance requests the table can hold
MaxStored == 2
\* maintenance requests that the Dashboard's queries find
MaxDash == 2
\* filter changes during one visit of the Dashboard
MaxChanges == 2
\* rows ever inserted into the tables of SpecRLS
MaxRows == 3
\* photos offered to a file input
MaxFiles == 1
\* handler invocations started from the Maintenance page's controls that are
\* in flight at once
MaxTasks == 2
\* maintenance requests that the query of a report can find
MaxReportRows == 2
\* reports saved during one visit of the Reports page
MaxReports == 2
\* the height in CSS pixels of the rendered report
MaxScrollHeight == 600
\* exports of one report
MaxExports == 1

\* ------------------------------------------------------------- auth state
VARIABLES
  accounts,     \* backend: registered e-mails (auth.users)
  subStatus,    \* backend: e-mail -> subscription_status ("none" = no row)
  checkout,     \* payment processor: e-mail -> state of its checkout session
  session,      \* supabase client: the persisted session's user, or NULL
  site,         \* what the browser tab shows: "app" or "stripe"
  path,         \* window.location.pathname while the app is shown
  payToast,     \* AppContent: payment feedback toast of this page load
  user,         \* AuthProvider: useState user
  loading,      \* AuthProvider: useState loading
  init,         \* position of initializeAuth
  handlers,     \* onAuthStateChange handler invocations awaiting the lookup
  form,         \* AuthForm: isSignUp, showPlans, signUpData, loading
  hps,          \* position and history of handlePlanSelection
  admitBy,      \* history: the lookup result behind the last setUser(non-null)
  returned,     \* history: account that came back from a paid checkout
  callFailed,   \* history: a remote call failed since the paid checkout
  untoasted     \* history: a call of this page load failed and its handler
                \* ended without toast.error

authVars == <<accounts, subStatus, checkout, session, site, path, payToast,
              user, loading, init, handlers, form, hps, admitBy, returned,
              callFailed, untoasted>>

\* ------------------------------------------------ Maintenance page state
VARIABLES
  rows,                 \* maintenance_requests: id -> row, or NoRow
  nextId,               \* ids handed out so far (a uuid is never reused)
  bucket,               \* storage: the 'maintenance-photos' bucket exists
  mounted,              \* the page's mount effect has run
  mloading,             \* useState loading
  maintenanceRequests,  \* useState: id -> status as last fetched, or "absent"
  isModalOpen,
  editingMaintenance,   \* id, or 0 for null
  beforePhotos,
  isFinalizeModalOpen,
  isAfterPhotosModalOpen,
  selectedMaintenance,  \* id, or 0 for null
  afterPhotos,
  uploadingPhotos,
  tasks,                \* bag of handler invocations waiting at an await
  uploadToast           \* the step just taken showed 'Erro ao fazer upload das fotos...'

maintVars == <<rows, nextId, bucket, mounted, mloading, maintenanceRequests,
               isModalOpen, editingMaintenance, beforePhotos,
               isFinalizeModalOpen, isAfterPhotosModalOpen,
               selectedMaintenance, afterPhotos, uploadingPhotos, tasks,
               uploadToast>>

\* ------------------------------------------- the tables, for all users
VARIABLES
  rdb,     \* the rows of the tables that carry a user_id
  rnext,   \* ids handed out so far
  rlast,   \* the last query: who issued it, what it returned and changed
  profiles, \* the users that have a row in profiles
  rgone    \* the rows deleted by their owners (a list loaded earlier may
           \* still show them)

rlsVars == <<rdb, rnext, rlast, profiles, rgone>>

\* ------------------------------------------------------------ Dashboard
VARIABLES
  dashRows,             \* the user's maintenance_requests, as the joins show them
  dashMounted,          \* the Dashboard's effect has run once
  selectedCondominium,
  selectedSupplier,
  selectedServiceType,
  stats,                \* useState stats, with the filters and rows it was made of
  dashLoads,            \* bag: the filters of the loadDashboardData calls in flight
  dashChanges           \* filter changes so far

dashVars == <<dashRows, dashMounted, selectedCondominium, selectedSupplier,
              selectedServiceType, stats, dashLoads, dashChanges>>

\* -------------------------------------------------------------- Reports
VARIABLES
  repRows,        \* the user's maintenance_requests, as the joins show them
  reportData,    \* useState reportData: <<>> for null, or <<the report>>
  repLoading,     \* useState loading
  repCall,       \* <<>>, or <<the generateReport invocation at an await>>
  savedReports   \* rows inserted into reports

repVars == <<repRows, reportData, repLoading, repCall, savedReports>>

\* ------------------------------------------------------------ exportToPDF
VARIABLES
  pdf   \* the exportToPDF invocation: its position, the canvas, the locals
        \* of the page loop and the pages of the jsPDF document

pdfVars == <<pdf>>

vars == <<authVars, maintVars, rlsVars, dashVars, repVars, pdfVars>>

\* what an action of one specification leaves alone
notAuth == <<maintVars, rlsVars, dashVars, repVars, pdfVars>>
notMaint == <<authVars, rlsVars, dashVars, repVars, pdfVars>>
notRLS == <<authVars, maintVars, dashVars, repVars, pdfVars>>
notDash == <<authVars, maintVars, rlsVars, repVars, pdfVars>>
notReports == <<authVars, maintVars, rlsVars, dashVars, pdfVars>>
notPDF == <<authVars, maintVars, rlsVars, dashVars, repVars>>

\* ---------------------------------------------------------------- routing
\* src/unnamed/part_001 (App.tsx) routes nested under <Layout />
ProtectedPaths ==
  {"/", "/condominiums", "/suppliers", "/maintenance", "/reports", "/settings"}

PageOf(p) ==
  CASE p = "/"             -> "Dashboard"
    [] p = "/condominiums" -> "Condominiums"
    [] p = "/suppliers"    -> "Suppliers"
    [] p = "/maintenance"  -> "Maintenance"
    [] p = "/reports"      -> "Reports"
    [] p = "/settings"     -> "Settings"

ProtectedPages == {PageOf(p) : p \in ProtectedPaths}

\* every URL a person may type; "/x" stands for any unknown path
Paths == ProtectedPaths \cup {"/auth", "/payment-success", "/x"}

\* Layout with its guard removed: renders the outlet for anybody
LayoutNoGuard(p, u) == PageOf(p)

\* Layout: if (!user) return <Navigate to="/auth" replace />
Layout(p, u) == IF u = NULL THEN "Navigate:/auth" ELSE PageOf(p)

\* AppContent: the element React renders for location p
AppContent(p, u, l) ==
  IF l THEN "Spinner"
  ELSE IF p = "/auth" THEN (IF u # NULL THEN "Navigate:/" ELSE "AuthForm")
  ELSE IF p = "/payment-success" THEN "PaymentSuccess"
  ELSE IF p \in ProtectedPaths THEN Layout(p, u)
  ELSE "Navigate:/"

\* a rendered <Navigate replace /> replaces the location; one more render
\* follows.  Two redirects are the most a location can take.
Follow(p, u, l) ==
  LET el == AppContent(p, u, l)
  IN  IF el = "Navigate:/" THEN "/"
      ELSE IF el = "Navigate:/auth" THEN "/auth"
      ELSE p

Resolve(p, u, l) == Follow(Follow(p, u, l), u, l)

Rendered == AppContent(path, user, loading)


\* ------------------------------------------------------ hosted services
\* subscription_status values; "none" stands for "no row" (maybeSingle -> null)
SubStatuses == {"none", "active", "trialing", "canceled"}

\* a lookup that returned an error leaves data null, like a missing row
LookupResults(e) == {subStatus[e], "none"}

\* accepts any existing row, whatever its status
IsActiveSubscriptionAnyRow(sub) == sub # "none"

\* subscription && ['active', 'trialing'].includes(subscription.subscription_status)
IsActiveSubscription(sub) == sub # "none" /\ sub \in {"active", "trialing"}

\* -------------------------------------------------------- AuthProvider
Idle == [sess |-> NULL, hadUser |-> FALSE]

InitStart == [pc |-> "getSession", sess |-> NULL, why |-> "none"]

FormInit == [isSignUp |-> FALSE, showPlans |-> FALSE, signUpData |-> NULL,
             loading |-> FALSE]

HpsIdle == [pc |-> "idle", email |-> NULL, retry |-> FALSE, signUpRes |-> "none",
            checkoutInvoked |-> FALSE, checkoutRes |-> "none",
            redirected |-> FALSE, toasted |-> FALSE]

NoLookup == [who |-> NULL, status |-> "none"]

FreeSlots == {i \in 1..MaxHandlers : handlers[i] = Idle}
FreeSlot == CHOOSE i \in FreeSlots : \A j \in FreeSlots : i <= j

\* history: a remote call failed after the return from a paid checkout
Failed(now) == returned # NULL /\ (callFailed \/ now)

\* the AuthForm is unmounted (its useState is lost) whenever another element
\* is rendered
FormAfter(p, u, l, f) == IF AppContent(p, u, l) = "AuthForm" THEN f ELSE FormInit

\* setUser / setLoading followed by the render they cause
SetAuth(u, l, f, by) ==
  /\ user' = u
  /\ admitBy' = (IF u = NULL THEN NoLookup ELSE by)
  /\ loading' = l
  /\ path' = Resolve(path, u, l)
  /\ form' = FormAfter(Resolve(path, u, l), u, l, f)

\* supabase.auth notifies the onAuthStateChange callback with (event, s).
\* The callback runs to its first await: with a user in s it issues the
\* subscription lookup and waits; otherwise it is synchronous.
CanNotify(s) == s = NULL \/ FreeSlots # {}

Notify(s, f) ==
  IF s # NULL
  THEN /\ handlers' = [handlers EXCEPT ![FreeSlot] = [sess |-> s, hadUser |-> (user # NULL)]]
       /\ UNCHANGED <<user, loading, path, admitBy>>
       /\ form' = f
  ELSE /\ handlers' = handlers
       /\ SetAuth(NULL, FALSE, f, NoLookup)

\* `user` as the callback's closure sees it: useEffect(..., []) registered the
\* callback in the first render, when useState gave null
closureUser == NULL

\* if (user) toast.error('Assinatura necessária...') in the else branch
HandlerToasts(sub) == ~IsActiveSubscription(sub) /\ closureUser # NULL

\* the lookup of a waiting onAuthStateChange callback returns
onAuthStateChange(i) ==
  /\ site = "app"
  /\ handlers[i] # Idle
  /\ \E sub \in LookupResults(handlers[i].sess) :
       /\ callFailed' = Failed(sub # subStatus[handlers[i].sess])
       \* the error of the lookup is dropped; `user` in this closure is the
       \* one of the first render, so the else branch shows no toast
       /\ untoasted' = (untoasted \/ (sub # subStatus[handlers[i].sess]
                                        /\ ~HandlerToasts(sub)))
       /\ IF IsActiveSubscription(sub)
          THEN SetAuth(handlers[i].sess, FALSE, form,
                       [who |-> handlers[i].sess, status |-> sub])
          ELSE SetAuth(NULL, FALSE, form, NoLookup)
  /\ handlers' = [handlers EXCEPT ![i] = Idle]
  /\ UNCHANGED <<accounts, subStatus, checkout, session, site, payToast, init,
                 hps, returned>>
  /\ UNCHANGED notAuth

\* an auth event that no operation of the page caused: INITIAL_SESSION after
\* the listener is registered, TOKEN_REFRESHED, SIGNED_IN when the tab regains
\* focus.  It carries the client's current session.
AuthEvent ==
  /\ site = "app"
  /\ CanNotify(session)
  /\ Notify(session, form)
  /\ UNCHANGED <<untoasted, accounts, subStatus, checkout, session, site, payToast, init,
                 hps, returned, callFailed>>
  /\ UNCHANGED notAuth

\* initializeAuth: await supabase.auth.getSession() returns
GetSessionResults == {"ok", "invalid_refresh", "error", "throw"}

initializeAuth_getSession ==
  /\ site = "app"
  /\ init.pc = "getSession"
  /\ \E res \in GetSessionResults :
       /\ res = "invalid_refresh" => session # NULL
       /\ callFailed' = Failed(res # "ok")
       \* only 'Invalid Refresh Token' leads to a toast; any other error and
       \* the catch block (console.error) show none
       /\ untoasted' = (untoasted \/ res \in {"error", "throw"})
       /\ LET s == IF res = "ok" THEN session ELSE NULL
          IN  IF res = "invalid_refresh"
              THEN /\ init' = [pc |-> "signOut", sess |-> NULL, why |-> "expired"]
                   /\ UNCHANGED <<user, loading, path, form, admitBy>>
              ELSE IF res # "throw" /\ s # NULL
              THEN /\ init' = [pc |-> "lookup", sess |-> s, why |-> "none"]
                   /\ UNCHANGED <<user, loading, path, form, admitBy>>
              ELSE \* setUser(session?.user ?? null), or the catch; finally
                   /\ init' = [pc |-> "done", sess |-> NULL, why |-> "none"]
                   /\ SetAuth(s, FALSE, form, NoLookup)
  /\ UNCHANGED <<accounts, subStatus, checkout, session, site, payToast,
                 handlers, hps, returned>>
  /\ UNCHANGED notAuth

\* initializeAuth: the stripe_user_subscriptions lookup returns
initializeAuth_lookup ==
  /\ site = "app"
  /\ init.pc = "lookup"
  /\ \E sub \in LookupResults(init.sess) :
       /\ callFailed' = Failed(sub # subStatus[init.sess])
       /\ IF ~IsActiveSubscription(sub)
          THEN /\ init' = [init EXCEPT !.pc = "signOut", !.why = "nosub"]
               /\ UNCHANGED <<user, loading, path, form, admitBy>>
          ELSE /\ init' = [pc |-> "done", sess |-> NULL, why |-> "none"]
               /\ SetAuth(init.sess, FALSE, form,
                          [who |-> init.sess, status |-> sub])
  /\ UNCHANGED <<untoasted, accounts, subStatus, checkout, session, site, payToast,
                 handlers, hps, returned>>
  /\ UNCHANGED notAuth

\* initializeAuth: await supabase.auth.signOut() returns; the SIGNED_OUT
\* event has been delivered (synchronously, session null), then setUser(null),
\* the toast and the finally block run.  A signOut that throws goes to the
\* catch block, which also ends in setUser(null).
initializeAuth_signOut ==
  /\ site = "app"
  /\ init.pc = "signOut"
  /\ \E ok \in BOOLEAN :
       /\ session' = IF ok THEN NULL ELSE session
       /\ callFailed' = Failed(~ok)
       /\ untoasted' = (untoasted \/ ~ok)
  /\ init' = [pc |-> "done", sess |-> NULL, why |-> "none"]
  /\ SetAuth(NULL, FALSE, form, NoLookup)
  /\ UNCHANGED <<accounts, subStatus, checkout, site, payToast, handlers, hps,
                 returned>>
  /\ UNCHANGED notAuth


\* ------------------------------------------------------------- AuthForm
FormShown == site = "app" /\ Rendered = "AuthForm"

\* the "Já tem conta? / Não tem conta?" toggle under the form
toggleSignUp ==
  /\ FormShown
  /\ ~form.showPlans
  /\ form' = [form EXCEPT !.isSignUp = ~form.isSignUp]
  /\ UNCHANGED <<untoasted, accounts, subStatus, checkout, session, site, path, payToast,
                 user, loading, init, handlers, hps, admitBy, returned,
                 callFailed>>
  /\ UNCHANGED notAuth

\* onSignUp: keeps the form data and shows the plans, unless the passwords differ
onSignUp(e, confirmed) ==
  /\ FormShown
  /\ form.isSignUp /\ ~form.showPlans /\ ~form.loading
  /\ confirmed
  /\ form' = [form EXCEPT !.signUpData = e, !.showPlans = TRUE]
  /\ UNCHANGED <<untoasted, accounts, subStatus, checkout, session, site, path, payToast,
                 user, loading, init, handlers, hps, admitBy, returned,
                 callFailed>>
  /\ UNCHANGED notAuth

\* "Voltar ao cadastro"
backToSignUp ==
  /\ FormShown
  /\ form.showPlans
  /\ form' = [form EXCEPT !.signUpData = NULL, !.showPlans = FALSE]
  /\ UNCHANGED <<untoasted, accounts, subStatus, checkout, session, site, path, payToast,
                 user, loading, init, handlers, hps, admitBy, returned,
                 callFailed>>
  /\ UNCHANGED notAuth

\* handlePlanSelection up to its first await (supabase.auth.signUp)
handlePlanSelection_start ==
  /\ FormShown
  /\ form.showPlans /\ ~form.loading
  /\ hps.pc \in {"idle", "done"}
  /\ IF form.signUpData = NULL
     THEN \* if (!signUpData) return
          /\ hps' = [HpsIdle EXCEPT !.pc = "done"]
          /\ form' = form
     ELSE /\ hps' = [HpsIdle EXCEPT !.pc = "signUp", !.email = form.signUpData,
                                    !.retry = (checkout[form.signUpData] = "cancelled")]
          /\ form' = [form EXCEPT !.loading = TRUE]
  /\ returned' = NULL
  /\ callFailed' = FALSE
  /\ UNCHANGED <<untoasted, accounts, subStatus, checkout, session, site, path, payToast,
                 user, loading, init, handlers, admitBy>>
  /\ UNCHANGED notAuth

\* what supabase.auth.signUp can answer: an e-mail that is registered already
\* is refused ("User already registered")
SignUpResults(e) ==
  IF e \in accounts THEN {"error", "throw"} ELSE {"error", "nouser", "user", "throw"}

\* goes on to the checkout although no user came back
SignUpProceedsNoUserCheck(res) == res \in {"user", "nouser"}

\* neither signUpError nor !authData.user
SignUpProceeds(res) == res = "user"

\* supabase.auth.signUp returns
handlePlanSelection_signUp ==
  /\ site = "app"
  /\ hps.pc = "signUp"
  /\ \E res \in SignUpResults(hps.email) :
       /\ callFailed' = Failed(res # "user")
       /\ IF res = "user"
          THEN \* the account exists now, the client holds its session and
               \* the listener is told (SIGNED_IN)
               /\ CanNotify(hps.email)
               /\ accounts' = accounts \cup {hps.email}
               /\ session' = hps.email
               /\ Notify(hps.email, form)
          ELSE /\ UNCHANGED <<accounts, session, handlers, user, loading, path,
                            admitBy>>
               /\ form' = IF SignUpProceeds(res) THEN form
                          ELSE [form EXCEPT !.loading = FALSE]
       /\ IF SignUpProceeds(res)
          THEN \* supabase.functions.invoke('stripe-checkout') is issued
               hps' = [hps EXCEPT !.pc = "checkout", !.signUpRes = res,
                                  !.checkoutInvoked = TRUE]
          ELSE \* toast.error; return (or the catch); finally setLoading(false)
               hps' = [hps EXCEPT !.pc = "done", !.signUpRes = res,
                                  !.toasted = TRUE]
  /\ UNCHANGED <<untoasted, subStatus, checkout, site, payToast, init, returned>>
  /\ UNCHANGED notAuth

\* the checkout function serves the signed-in caller only
CheckoutResults == IF session = NULL THEN {"error", "throw"}
                   ELSE {"error", "nourl", "url", "throw"}

\* redirects whenever the function returned no error
CheckoutRedirectsNoUrlCheck(res) == res \in {"url", "nourl"}

\* !error && data?.url
CheckoutRedirects(res) == res = "url"

\* supabase.functions.invoke('stripe-checkout') returns
handlePlanSelection_checkout ==
  /\ site = "app"
  /\ hps.pc = "checkout"
  /\ \E res \in CheckoutResults :
       /\ callFailed' = Failed(res # "url")
       /\ checkout' = IF res = "url" THEN [checkout EXCEPT ![session] = "open"]
                      ELSE checkout
       /\ IF CheckoutRedirects(res)
          THEN \* window.location.href = data.url; finally setLoading(false)
               /\ hps' = [hps EXCEPT !.pc = "done", !.checkoutRes = res,
                                     !.redirected = TRUE]
               /\ site' = "stripe"
          ELSE /\ hps' = [hps EXCEPT !.pc = "done", !.checkoutRes = res,
                                     !.toasted = TRUE]
               /\ site' = site
  /\ form' = [form EXCEPT !.loading = FALSE]
  /\ UNCHANGED <<untoasted, accounts, subStatus, session, path, payToast, user, loading,
                 init, handlers, admitBy, returned>>
  /\ UNCHANGED notAuth

\* onSignIn -> signIn: signInWithPassword succeeds for a registered e-mail;
\* the listener is told (SIGNED_IN)
onSignIn(e) ==
  /\ FormShown
  /\ ~form.isSignUp /\ ~form.showPlans /\ ~form.loading
  /\ e \in accounts
  /\ CanNotify(e)
  /\ session' = e
  /\ Notify(e, form)
  /\ returned' = NULL
  /\ callFailed' = FALSE
  /\ UNCHANGED <<untoasted, accounts, subStatus, checkout, site, payToast, init, hps>>
  /\ UNCHANGED notAuth

\* ---------------------------------------------------------------- Layout
LayoutShown == site = "app" /\ Rendered \in ProtectedPages

\* the "Sair" button: signOut; the listener is told (SIGNED_OUT, no session)
signOut ==
  /\ LayoutShown
  /\ session' = NULL
  /\ Notify(NULL, form)
  /\ returned' = NULL
  /\ callFailed' = FALSE
  /\ UNCHANGED <<untoasted, accounts, subStatus, checkout, site, payToast, init, hps>>
  /\ UNCHANGED notAuth

\* a sidebar <Link>, or navigate('/') of the PaymentSuccess page
navigate(p) ==
  /\ site = "app"
  /\ \/ Rendered \in ProtectedPages /\ p \in ProtectedPaths
     \/ Rendered = "PaymentSuccess" /\ p = "/"
  /\ p # path
  /\ path' = Resolve(p, user, loading)
  /\ form' = FormAfter(Resolve(p, user, loading), user, loading, form)
  /\ UNCHANGED <<untoasted, accounts, subStatus, checkout, session, site, payToast, user,
                 loading, init, handlers, hps, admitBy, returned, callFailed>>
  /\ UNCHANGED notAuth

\* ------------------------------------------------------- the browser tab
\* a fresh page load at p: React state starts over, callbacks of the old page
\* are gone; the session persists in the client's storage.  AppContent's
\* effect shows the payment toast for ?payment=success / cancelled.
AppLoad(p, pay) ==
  /\ site' = "app"
  /\ path' = p
  /\ payToast' = pay
  /\ user' = NULL
  /\ loading' = TRUE
  /\ init' = InitStart
  /\ handlers' = [i \in 1..MaxHandlers |-> Idle]
  /\ form' = FormInit
  /\ hps' = HpsIdle
  /\ admitBy' = NoLookup
  /\ callFailed' = FALSE
  /\ untoasted' = FALSE

CheckoutOf == CHOOSE e \in Emails : checkout[e] = "open"

\* the payment page: paid, back to success_url '/?payment=success'
stripePaid ==
  /\ site = "stripe"
  /\ checkout' = [checkout EXCEPT ![CheckoutOf] = "paid"]
  /\ returned' = CheckoutOf
  /\ AppLoad("/", "success")
  /\ UNCHANGED <<accounts, subStatus, session>>
  /\ UNCHANGED notAuth

\* the payment page: cancelled, back to cancel_url '/auth?payment=cancelled'
stripeCancelled ==
  /\ site = "stripe"
  /\ checkout' = [checkout EXCEPT ![CheckoutOf] = "cancelled"]
  /\ returned' = NULL
  /\ AppLoad("/auth", "cancelled")
  /\ UNCHANGED <<accounts, subStatus, session>>
  /\ UNCHANGED notAuth

\* the payment processor's webhook records the paid subscription
subscriptionActivated(e, s) ==
  /\ checkout[e] = "paid"
  /\ subStatus[e] = "none"
  /\ s \in {"active", "trialing"}
  /\ subStatus' = [subStatus EXCEPT ![e] = s]
  /\ UNCHANGED <<untoasted, accounts, checkout, session, site, path, payToast, user,
                 loading, init, handlers, form, hps, admitBy, returned,
                 callFailed>>
  /\ UNCHANGED notAuth

\* a subscription lapses or is cancelled
subscriptionEnded(e, s) ==
  /\ subStatus[e] \in {"active", "trialing"}
  /\ s = "canceled"
  /\ subStatus' = [subStatus EXCEPT ![e] = s]
  /\ UNCHANGED <<untoasted, accounts, checkout, session, site, path, payToast, user,
                 loading, init, handlers, form, hps, admitBy, returned,
                 callFailed>>
  /\ UNCHANGED notAuth

\* AuthProvider has admitted the subscriber e2, who looks at the page of path p
AuthAdmitted(p) ==
  /\ accounts = {"e2"}
  /\ subStatus = [e \in Emails |-> IF e = "e2" THEN "active" ELSE "none"]
  /\ checkout = [e \in Emails |-> IF e = "e2" THEN "paid" ELSE "none"]
  /\ session = "e2"
  /\ site = "app"
  /\ path = p
  /\ payToast = "none"
  /\ user = "e2"
  /\ loading = FALSE
  /\ init = [pc |-> "done", sess |-> NULL, why |-> "none"]
  /\ handlers = [i \in 1..MaxHandlers |-> Idle]
  /\ form = FormInit
  /\ hps = HpsIdle
  /\ admitBy = [who |-> "e2", status |-> "active"]
  /\ returned = NULL
  /\ callFailed = FALSE
  /\ untoasted = FALSE

\* ============================================== tables and their policies
\* the tables whose rows carry user_id and that the pages query
Tables == {"condominiums", "suppliers", "maintenance_requests", "reports"}

\* the users are told apart by their e-mail
Users == Emails

NoQuery ==
  [by |-> NULL, op |-> "none", id |-> 0, returned |-> {}, changed |-> {},
   error |-> "none"]

RLSIdle ==
  /\ rdb = {}
  /\ rnext = 0
  /\ rlast = NoQuery
  /\ profiles = {}
  /\ rgone = {}

\* no policy: every row passes
UsingTrue(a, r) == TRUE

\* USING (user_id = auth.uid()), the same for the four tables
Using(a, r) == r.user_id = a

\* WITH CHECK (user_id = auth.uid())
WithCheck(a, r) == r.user_id = a

\* profiles(id) holds the user
HasProfile(a) == a \in profiles

\* .select(...).eq('user_id', user.id): what a page of user a gets to list
Selected(a, tbl) ==
  {r \in rdb : r.tbl = tbl /\ Using(a, r) /\ r.user_id = a}

\* a page's loader runs its select
rlsSelect(a, tbl) ==
  /\ rlast' = [by |-> a, op |-> "select", id |-> 0,
               returned |-> Selected(a, tbl), changed |-> {}, error |-> "none"]
  /\ rlast' # rlast
  /\ UNCHANGED <<rdb, rnext, profiles, rgone>>
  /\ UNCHANGED notRLS

\* what a drop-down of a form of user a can offer: the rows listed for a,
\* and rows deleted since the list was loaded
Offered(a, tbl) ==
  {r.id : r \in Selected(a, tbl)}
    \cup {r.id : r \in {g \in rgone : g.tbl = tbl /\ g.user_id = a}}

\* a referenced row exists; a foreign key is checked whatever the policies say
Exists(tbl, id) == \E r \in rdb : r.tbl = tbl /\ r.id = id

\* the foreign keys of a new row: user_id REFERENCES profiles(id),
\* condominium_id REFERENCES condominiums(id), supplier_id (nullable)
\* REFERENCES suppliers(id); the constraint that fails, or "none"
ForeignKeyError(r) ==
  IF ~HasProfile(r.user_id) THEN "user_id_fkey"
  ELSE IF r.tbl = "maintenance_requests" /\ ~Exists("condominiums", r.cond)
  THEN "condominium_id_fkey"
  ELSE IF r.tbl = "maintenance_requests" /\ r.supp # 0 /\ ~Exists("suppliers", r.supp)
  THEN "supplier_id_fkey"
  ELSE "none"

\* onSubmit of a page with nothing being edited: .insert([{..., user_id:
\* user.id}]); a maintenance request takes its condominium_id and its
\* supplier_id (0: none) from the form's drop-downs (c = 0, s = 0 elsewhere)
rlsInsert(a, tbl, c, s) ==
  /\ rnext < MaxRows
  /\ IF tbl = "maintenance_requests"
     THEN c \in Offered(a, "condominiums") /\ s \in {0} \cup Offered(a, "suppliers")
     ELSE c = 0 /\ s = 0
  /\ LET r == [tbl |-> tbl, id |-> rnext + 1, user_id |-> a, cond |-> c, supp |-> s]
     IN  /\ WithCheck(a, r)
         /\ IF ForeignKeyError(r) = "none"
            THEN /\ rdb' = rdb \cup {r}
                 /\ rnext' = rnext + 1
                 /\ rlast' = [by |-> a, op |-> "insert", id |-> r.id,
                              returned |-> {}, changed |-> {r}, error |-> "none"]
            ELSE /\ UNCHANGED <<rdb, rnext>>
                 /\ rlast' = [by |-> a, op |-> "insert", id |-> 0,
                              returned |-> {}, changed |-> {},
                              error |-> ForeignKeyError(r)]
  /\ UNCHANGED <<profiles, rgone>>
  /\ UNCHANGED notRLS

\* Settings, loadProfile of user a: the select of the user's profile; when it
\* finds no row (PGRST116) the profile is created by an upsert, which may fail
loadProfile(a) ==
  /\ \E ok \in BOOLEAN :
       profiles' = IF ~HasProfile(a) /\ ok THEN profiles \cup {a} ELSE profiles
  /\ rlast' = [by |-> a, op |-> "loadProfile", id |-> 0,
               returned |-> {}, changed |-> {}, error |-> "none"]
  /\ UNCHANGED <<rdb, rnext, rgone>>
  /\ UNCHANGED notRLS

\* .update({...}).eq('id', id): the payload never holds user_id, so the row
\* passes WITH CHECK whenever it passed USING
rlsUpdate(a, id) ==
  /\ rlast' = [by |-> a, op |-> "update", id |-> id, returned |-> {},
               changed |-> {r \in rdb : r.id = id /\ Using(a, r)},
               error |-> "none"]
  /\ rlast' # rlast
  /\ UNCHANGED <<rdb, rnext, profiles, rgone>>
  /\ UNCHANGED notRLS

\* nothing is removed along with a deleted row
CascadeNone(gone) == {}

\* condominium_id ... ON DELETE CASCADE: the maintenance requests of the
\* deleted condominiums, whatever the policies say
Cascade(gone) ==
  {r \in rdb : /\ r.tbl = "maintenance_requests"
               /\ \E g \in gone : g.tbl = "condominiums" /\ r.cond = g.id}

\* supplier_id ... ON DELETE SET NULL: the maintenance requests that keep
\* existing without the deleted suppliers
SetNull(gone) ==
  {r \in rdb : /\ r.tbl = "maintenance_requests"
               /\ \E g \in gone : g.tbl = "suppliers" /\ r.supp = g.id}
    \ Cascade(gone)

\* .delete().eq('id', id), with the actions of the foreign keys
rlsDelete(a, id) ==
  LET gone == {r \in rdb : r.id = id /\ Using(a, r)}
  IN  /\ rlast' = [by |-> a, op |-> "delete", id |-> id, returned |-> {},
                   changed |-> gone \cup Cascade(gone) \cup SetNull(gone),
                   error |-> "none"]
      /\ rlast' # rlast
      /\ rdb' = (rdb \ (gone \cup Cascade(gone) \cup SetNull(gone)))
                  \cup {[r EXCEPT !.supp = 0] : r \in SetNull(gone)}
      /\ rgone' = rgone \cup gone
      /\ UNCHANGED <<rnext, profiles>>
      /\ UNCHANGED notRLS

\* ===================================================== Maintenance page
\* ---------------------------------------------------------- the database
ReqIds == 1..MaxStored

NoRow == [status |-> "absent", start_date |-> FALSE, completion_date |-> FALSE,
          final_value |-> <<>>, photos_before |-> <<>>, photos_after |-> <<>>]

Statuses == {"open", "in_progress", "completed"}

\* what the number input of the finalize form can hold when the form is
\* submitted: nothing, a negative amount, zero, a positive amount
FinalValues == {<<>>, <<-1>>, <<0>>, <<100>>}

\* min: { value: 0, message: 'Valor deve ser positivo' }
MinFinalValue == 0

\* the min rule of the input: the value is not below the bound
MinFinalValueRule(v) == v >= MinFinalValue

\* handleFinalizeSubmit calls finalizeMaintenance only when the input holds a
\* value (required) that passes the min rule
handleFinalizeSubmit(v) == v # <<>> /\ MinFinalValueRule(v[1])

\* the files a file input can hand over: File i is uploaded to URL i
Files == 1..MaxFiles

RECURSIVE Ascending(_)
Ascending(s) ==
  IF Len(s) < 2 THEN TRUE ELSE s[1] < s[2] /\ Ascending(Tail(s))

FileLists == {s \in UNION {[1..k -> Files] : k \in 0..MaxFiles} : Ascending(s)}

\* INSERT INTO maintenance_requests: status DEFAULT 'open', the other
\* columns of the workflow NULL (final_value: <<>> for NULL, <<v>> for v)
NewRow(urls) ==
  [status |-> "open", start_date |-> FALSE, completion_date |-> FALSE,
   final_value |-> <<>>, photos_before |-> urls, photos_after |-> <<>>]

\* .eq('id', id) matches the row while it exists; an UPDATE or DELETE that
\* matches no row is no error
UpdateRow(id, new) ==
  IF rows[id] = NoRow THEN rows ELSE [rows EXCEPT ![id] = new]

\* ------------------------------------------------- handler invocations
\* op: the handler; pc: the call it awaits; id: the request it works on (0:
\* none); files: photos still to upload, the head being in flight; urls: the
\* public URLs collected; status, val: the status and final_value it writes
\* (val is <<>> for none); attempts: how many times the call it awaits has
\* been issued; err: the error its first issue got; n: calls of this
\* invocation in flight
Task(op, pc, id, files, urls, status, val) ==
  [op |-> op, pc |-> pc, id |-> id, files |-> files, urls |-> urls,
   status |-> status, val |-> val, attempts |-> 1, err |-> "none", n |-> 1,
   condominium_id |-> ""]

\* await loadMaintenanceRequests() at the end of the handler of t
Reload(t) == Task(t.op, "load", 0, <<>>, <<>>, "none", <<>>)

Waiting == BagToSet(tasks)

\* the loaders that the mount effect starts
Loaders == {"loadMaintenanceRequests", "loadCondominiums", "loadSuppliers"}

Started == {t \in Waiting : t.op \notin Loaders}

NumTasks == BagCardinality([t \in Started |-> tasks[t]])

Running(op) == \E t \in Waiting : t.op = op

Start(t) == tasks' = tasks (+) SetToBag({t})

Continue(t, u) == tasks' = (tasks (-) SetToBag({t})) (+) SetToBag({u})

Finish(t) == tasks' = tasks (-) SetToBag({t})

\* ------------------------------------------------------------ the page
\* before the page is mounted: no request yet, and no migration creates the
\* photo bucket
\* ------------------------------------------------- the maintenance form
\* what a text input can hold: nothing, or a text
Texts == {"", "t"}

\* what the condominium selector can hold: nothing ('' after a click that
\* clears it, undefined before any click), or a condominium of the caller
CondominiumIds == {"", "c1"}

\* the values the form can hold when its submit button is clicked: the
\* inputs and the selector are free until then
MaintenanceForm ==
  [title : Texts, description : Texts, condominium_id : CondominiumIds]

\* the fields passed to register with a required rule
RequiredFields == {"title", "description"}

\* the errors handleSubmit finds: a registered required field left empty
Errors(data) == {k \in RequiredFields : data[k] = ""}

\* handleSubmit calls onSubmit only when validation finds no error
handleSubmit(data) == Errors(data) = {}

\* the database on a write of maintenance_requests: condominium_id is a
\* uuid, NOT NULL, referencing condominiums
AcceptsCondominium(c) == c # ""

MaintIdle ==
  /\ rows = [i \in ReqIds |-> NoRow]
  /\ nextId = 0
  /\ bucket = FALSE
  /\ mounted = FALSE
  /\ mloading = TRUE
  /\ maintenanceRequests = [i \in ReqIds |-> "absent"]
  /\ isModalOpen = FALSE
  /\ editingMaintenance = 0
  /\ beforePhotos = <<>>
  /\ isFinalizeModalOpen = FALSE
  /\ isAfterPhotosModalOpen = FALSE
  /\ selectedMaintenance = 0
  /\ afterPhotos = <<>>
  /\ uploadingPhotos = FALSE
  /\ tasks = EmptyBag
  /\ uploadToast = FALSE

\* useEffect(() => {...}, []): the three loaders are started, none awaited
useEffect_mount ==
  /\ ~mounted
  /\ mounted' = TRUE
  /\ tasks' = tasks
       (+) SetToBag({Task("loadMaintenanceRequests", "load", 0, <<>>, <<>>, "none", <<>>)})
       (+) SetToBag({Task("loadCondominiums", "loadCondominiums", 0, <<>>, <<>>, "none", <<>>)})
       (+) SetToBag({Task("loadSuppliers", "loadSuppliers", 0, <<>>, <<>>, "none", <<>>)})
  /\ UNCHANGED <<rows, nextId, bucket, mloading, maintenanceRequests,
                 isModalOpen, editingMaintenance, beforePhotos,
                 isFinalizeModalOpen, isAfterPhotosModalOpen,
                 selectedMaintenance, afterPhotos, uploadingPhotos>>
  /\ uploadToast' = FALSE
  /\ UNCHANGED notMaint

\* loadMaintenanceRequests: the select returns.  setMaintenanceRequests on
\* success, a toast on error, setLoading(false) in either case; then the
\* handler that awaited the reload runs to its end (its finally block)
loadMaintenanceRequests_returns ==
  \E t \in Waiting, ok \in BOOLEAN :
    /\ t.pc = "load"
    /\ maintenanceRequests' =
         IF ok THEN [i \in ReqIds |-> rows[i].status] ELSE maintenanceRequests
    /\ mloading' = FALSE
    /\ uploadingPhotos' =
         IF t.op \in {"onSubmit", "uploadAfterPhotos"} THEN FALSE
         ELSE uploadingPhotos
    /\ Finish(t)
    /\ UNCHANGED <<rows, nextId, bucket, mounted, isModalOpen,
                   editingMaintenance, beforePhotos, isFinalizeModalOpen,
                   isAfterPhotosModalOpen, selectedMaintenance, afterPhotos>>
    /\ uploadToast' = FALSE
    /\ UNCHANGED notMaint

\* loadCondominiums / loadSuppliers: the select returns (the lists feed the
\* form's drop-downs only)
loadCondominiums_returns ==
  \E t \in Waiting :
    /\ t.pc = "loadCondominiums"
    /\ Finish(t)
    /\ UNCHANGED <<rows, nextId, bucket, mounted, mloading, maintenanceRequests,
                   isModalOpen, editingMaintenance, beforePhotos,
                   isFinalizeModalOpen, isAfterPhotosModalOpen,
                   selectedMaintenance, afterPhotos, uploadingPhotos>>
    /\ uploadToast' = FALSE
    /\ UNCHANGED notMaint

loadSuppliers_returns ==
  \E t \in Waiting :
    /\ t.pc = "loadSuppliers"
    /\ Finish(t)
    /\ UNCHANGED <<rows, nextId, bucket, mounted, mloading, maintenanceRequests,
                   isModalOpen, editingMaintenance, beforePhotos,
                   isFinalizeModalOpen, isAfterPhotosModalOpen,
                   selectedMaintenance, afterPhotos, uploadingPhotos>>
    /\ uploadToast' = FALSE
    /\ UNCHANGED notMaint

\* the modals are fixed z-50 overlays, the later in the markup on top; the
\* page renders a placeholder while loading
Top ==
  IF ~mounted \/ mloading THEN "placeholder"
  ELSE IF isAfterPhotosModalOpen /\ selectedMaintenance # 0 THEN "after"
  ELSE IF isFinalizeModalOpen /\ selectedMaintenance # 0 THEN "finalize"
  ELSE IF isModalOpen THEN "edit"
  ELSE "list"

Listed(id) == maintenanceRequests[id] # "absent"

Remove(s, i) == [j \in 1..(Len(s) - 1) |-> IF j < i THEN s[j] ELSE s[j + 1]]

\* --------------------------------------------- the create / edit modal
\* "Nova Manutenção" (m = 0) or the pencil of a listed request
openModal(m) ==
  /\ Top = "list"
  /\ m # 0 => Listed(m)
  /\ editingMaintenance' = m
  /\ isModalOpen' = TRUE
  /\ UNCHANGED <<rows, nextId, bucket, mounted, mloading, maintenanceRequests,
                 beforePhotos, isFinalizeModalOpen, isAfterPhotosModalOpen,
                 selectedMaintenance, afterPhotos, uploadingPhotos, tasks>>
  /\ uploadToast' = FALSE
  /\ UNCHANGED notMaint

closeModal ==
  /\ Top = "edit"
  /\ isModalOpen' = FALSE
  /\ editingMaintenance' = 0
  /\ beforePhotos' = <<>>
  /\ UNCHANGED <<rows, nextId, bucket, mounted, mloading, maintenanceRequests,
                 isFinalizeModalOpen, isAfterPhotosModalOpen,
                 selectedMaintenance, afterPhotos, uploadingPhotos, tasks>>
  /\ uploadToast' = FALSE
  /\ UNCHANGED notMaint

handleBeforePhotoChange(fs) ==
  /\ Top = "edit"
  /\ fs # beforePhotos
  /\ beforePhotos' = fs
  /\ UNCHANGED <<rows, nextId, bucket, mounted, mloading, maintenanceRequests,
                 isModalOpen, editingMaintenance, isFinalizeModalOpen,
                 isAfterPhotosModalOpen, selectedMaintenance, afterPhotos,
                 uploadingPhotos, tasks>>
  /\ uploadToast' = FALSE
  /\ UNCHANGED notMaint

removeBeforePhoto(i) ==
  /\ Top = "edit"
  /\ i \in 1..Len(beforePhotos)
  /\ beforePhotos' = Remove(beforePhotos, i)
  /\ UNCHANGED <<rows, nextId, bucket, mounted, mloading, maintenanceRequests,
                 isModalOpen, editingMaintenance, isFinalizeModalOpen,
                 isAfterPhotosModalOpen, selectedMaintenance, afterPhotos,
                 uploadingPhotos, tasks>>
  /\ uploadToast' = FALSE
  /\ UNCHANGED notMaint

\* ---------------------------------------------------------- uploadPhotos
\* for (const file of files) { await ...upload(filePath, file) ... }: one
\* upload is in flight at a time
UploadBatch(files) == 1

\* what storage answers to an upload
UploadResults == IF bucket THEN {"ok", "error"} ELSE {"bucket_not_found", "error"}

\* creates the bucket and uploads again after any upload error
RetriesUploadOnAnyError(res) == res # "ok"

\* uploadError.message.includes('Bucket not found')
RetriesUpload(res) == res = "bucket_not_found"

\* goes on to the handler's write without awaiting uploadPhotos
FirstUploadUnawaited(op, id, files) ==
  [Task(op, "upload", id, files, <<>>, "none", <<>>) EXCEPT !.n = UploadBatch(files) + 1]

\* the first call of an invocation that uploads files
FirstUpload(op, id, files) ==
  [Task(op, "upload", id, files, <<>>, "none", <<>>) EXCEPT !.n = UploadBatch(files)]

\* uploadedUrls.push(publicUrl), then the next file or, after the last one,
\* the write of the handler that called uploadPhotos
AfterUpload(t) ==
  LET urls == Append(t.urls, Head(t.files))
      rest == Tail(t.files)
  IN  IF rest # <<>>
      THEN [t EXCEPT !.files = rest, !.urls = urls, !.pc = "upload",
                     !.attempts = 1, !.err = "none", !.n = UploadBatch(rest)]
      ELSE [t EXCEPT !.files = rest, !.urls = urls, !.pc = "write",
                     !.attempts = 1, !.err = "none"]

\* uploadPhotos throws and nothing after it runs: no toast, no finally block
UploadThrowsSilently(t) ==
  /\ Finish(t)
  /\ uploadToast' = FALSE
  /\ UNCHANGED <<uploadingPhotos, bucket>>

\* uploadPhotos throws: the caller's inner catch shows a toast and returns,
\* its finally block runs
UploadThrows(t) ==
  /\ Finish(t)
  /\ uploadingPhotos' = FALSE
  /\ uploadToast' = TRUE
  /\ UNCHANGED bucket

\* the upload of the file at the head returns
uploadPhotos_upload ==
  \E t \in Waiting, res \in UploadResults :
    /\ t.pc = "upload"
    /\ IF res = "ok"
       THEN /\ Continue(t, AfterUpload(t))
            /\ uploadToast' = FALSE
            /\ UNCHANGED <<uploadingPhotos, bucket>>
       ELSE IF RetriesUpload(res)
       THEN \* supabase.storage.createBucket is issued
            /\ Continue(t, [t EXCEPT !.pc = "createBucket", !.err = res])
            /\ uploadToast' = FALSE
            /\ UNCHANGED <<uploadingPhotos, bucket>>
       ELSE UploadThrows(t)
    /\ UNCHANGED <<rows, nextId, mounted, mloading, maintenanceRequests,
                   isModalOpen, editingMaintenance, beforePhotos,
                   isFinalizeModalOpen, isAfterPhotosModalOpen,
                   selectedMaintenance, afterPhotos>>
    /\ UNCHANGED notMaint

\* createBucket returns: it fails when the bucket exists by now
uploadPhotos_createBucket ==
  \E t \in Waiting, ok \in BOOLEAN :
    /\ t.pc = "createBucket"
    /\ ok => ~bucket
    /\ IF ok
       THEN \* "Tentar upload novamente": the same upload is issued again
            /\ bucket' = TRUE
            /\ Continue(t, [t EXCEPT !.pc = "retry", !.attempts = t.attempts + 1])
            /\ uploadToast' = FALSE
            /\ UNCHANGED uploadingPhotos
       ELSE UploadThrows(t)
    /\ UNCHANGED <<rows, nextId, mounted, mloading, maintenanceRequests,
                   isModalOpen, editingMaintenance, beforePhotos,
                   isFinalizeModalOpen, isAfterPhotosModalOpen,
                   selectedMaintenance, afterPhotos>>
    /\ UNCHANGED notMaint

\* the second upload of the file returns
uploadPhotos_retry ==
  \E t \in Waiting, ok \in BOOLEAN :
    /\ t.pc = "retry"
    /\ ok => bucket
    /\ IF ok
       THEN /\ Continue(t, AfterUpload(t))
            /\ uploadToast' = FALSE
            /\ UNCHANGED <<uploadingPhotos, bucket>>
       ELSE UploadThrows(t)
    /\ UNCHANGED <<rows, nextId, mounted, mloading, maintenanceRequests,
                   isModalOpen, editingMaintenance, beforePhotos,
                   isFinalizeModalOpen, isAfterPhotosModalOpen,
                   selectedMaintenance, afterPhotos>>
    /\ UNCHANGED notMaint

\* -------------------------------------------------------------- onSubmit
\* the form's submit button (disabled while isSubmitting or uploadingPhotos),
\* up to the first await: the first upload, or the write when no photo is
\* selected
onSubmit_start(data) ==
  /\ Top = "edit"
  /\ handleSubmit(data)
  /\ ~Running("onSubmit") /\ ~uploadingPhotos
  /\ NumTasks < MaxTasks
  /\ editingMaintenance = 0 => (nextId < MaxReqs /\ nextId < MaxStored)
  /\ IF Len(beforePhotos) > 0
     THEN /\ uploadingPhotos' = TRUE
          /\ Start([FirstUpload("onSubmit", editingMaintenance, beforePhotos)
                      EXCEPT !.condominium_id = data.condominium_id])
     ELSE /\ uploadingPhotos' = uploadingPhotos
          /\ Start([Task("onSubmit", "write", editingMaintenance, <<>>, <<>>, "none", <<>>)
                      EXCEPT !.condominium_id = data.condominium_id])
  /\ UNCHANGED <<rows, nextId, bucket, mounted, mloading, maintenanceRequests,
                 isModalOpen, editingMaintenance, beforePhotos,
                 isFinalizeModalOpen, isAfterPhotosModalOpen,
                 selectedMaintenance, afterPhotos>>
  /\ uploadToast' = FALSE
  /\ UNCHANGED notMaint

\* the update (editingMaintenance) or the insert returns
onSubmit_write ==
  \E t \in Waiting, ok \in BOOLEAN :
    /\ t.op = "onSubmit" /\ t.pc = "write"
    /\ ok => AcceptsCondominium(t.condominium_id)
    /\ IF ok
       THEN /\ IF t.id # 0
               THEN /\ rows' = UpdateRow(t.id, [rows[t.id] EXCEPT !.photos_before = t.urls])
                    /\ nextId' = nextId
               ELSE /\ rows' = [rows EXCEPT ![nextId + 1] = NewRow(t.urls)]
                    /\ nextId' = nextId + 1
            /\ isModalOpen' = FALSE
            /\ editingMaintenance' = 0
            /\ beforePhotos' = <<>>
            /\ uploadingPhotos' = uploadingPhotos
            /\ Continue(t, Reload(t))
       ELSE \* throw error: the catch's toast, then the finally block
            /\ uploadingPhotos' = FALSE
            /\ Finish(t)
            /\ UNCHANGED <<rows, nextId, isModalOpen, editingMaintenance, beforePhotos>>
    /\ UNCHANGED <<bucket, mounted, mloading, maintenanceRequests,
                   isFinalizeModalOpen, isAfterPhotosModalOpen,
                   selectedMaintenance, afterPhotos>>
    /\ uploadToast' = FALSE
    /\ UNCHANGED notMaint

\* ------------------------------------------------------ deleteMaintenance
\* the trash button of a listed request, confirmed
deleteMaintenance_start(id) ==
  /\ Top = "list"
  /\ Listed(id)
  /\ NumTasks < MaxTasks
  /\ Start(Task("deleteMaintenance", "write", id, <<>>, <<>>, "none", <<>>))
  /\ UNCHANGED <<rows, nextId, bucket, mounted, mloading, maintenanceRequests,
                 isModalOpen, editingMaintenance, beforePhotos,
                 isFinalizeModalOpen, isAfterPhotosModalOpen,
                 selectedMaintenance, afterPhotos, uploadingPhotos>>
  /\ uploadToast' = FALSE
  /\ UNCHANGED notMaint

\* the delete returns
deleteMaintenance_write ==
  \E t \in Waiting, ok \in BOOLEAN :
    /\ t.op = "deleteMaintenance" /\ t.pc = "write"
    /\ IF ok
       THEN /\ rows' = [rows EXCEPT ![t.id] = NoRow]
            /\ Continue(t, Reload(t))
       ELSE /\ rows' = rows
            /\ Finish(t)
    /\ UNCHANGED <<nextId, bucket, mounted, mloading, maintenanceRequests,
                   isModalOpen, editingMaintenance, beforePhotos,
                   isFinalizeModalOpen, isAfterPhotosModalOpen,
                   selectedMaintenance, afterPhotos, uploadingPhotos>>
    /\ uploadToast' = FALSE
    /\ UNCHANGED notMaint

\* ----------------------------------------------------------- updateStatus
\* "Iniciar Manutenção", rendered for a request whose listed status is open:
\* updateStatus(maintenance.id, 'in_progress') up to its await
updateStatus_start(id) ==
  /\ Top = "list"
  /\ maintenanceRequests[id] = "open"
  /\ NumTasks < MaxTasks
  /\ Start(Task("updateStatus", "write", id, <<>>, <<>>, "in_progress", <<>>))
  /\ UNCHANGED <<rows, nextId, bucket, mounted, mloading, maintenanceRequests,
                 isModalOpen, editingMaintenance, beforePhotos,
                 isFinalizeModalOpen, isAfterPhotosModalOpen,
                 selectedMaintenance, afterPhotos, uploadingPhotos>>
  /\ uploadToast' = FALSE
  /\ UNCHANGED notMaint

\* updateData: status, and start_date or completion_date after it
updateData(row, status) ==
  [row EXCEPT !.status = status,
              !.start_date = (status = "in_progress") \/ row.start_date,
              !.completion_date = (status = "completed") \/ row.completion_date]

\* the update ... .eq('id', id) returns
updateStatus_write ==
  \E t \in Waiting, ok \in BOOLEAN :
    /\ t.op = "updateStatus" /\ t.pc = "write"
    /\ IF ok
       THEN /\ rows' = UpdateRow(t.id, updateData(rows[t.id], t.status))
            /\ Continue(t, Reload(t))
       ELSE /\ rows' = rows
            /\ Finish(t)
    /\ UNCHANGED <<nextId, bucket, mounted, mloading, maintenanceRequests,
                   isModalOpen, editingMaintenance, beforePhotos,
                   isFinalizeModalOpen, isAfterPhotosModalOpen,
                   selectedMaintenance, afterPhotos, uploadingPhotos>>
    /\ uploadToast' = FALSE
    /\ UNCHANGED notMaint

\* ---------------------------------------------------- finalizeMaintenance
\* "Finalizar", rendered for a request whose listed status is in_progress
openFinalizeModal(id) ==
  /\ Top = "list"
  /\ maintenanceRequests[id] = "in_progress"
  /\ selectedMaintenance' = id
  /\ isFinalizeModalOpen' = TRUE
  /\ UNCHANGED <<rows, nextId, bucket, mounted, mloading, maintenanceRequests,
                 isModalOpen, editingMaintenance, beforePhotos,
                 isAfterPhotosModalOpen, afterPhotos, uploadingPhotos, tasks>>
  /\ uploadToast' = FALSE
  /\ UNCHANGED notMaint

\* "Cancelar", or a click on the backdrop
closeFinalizeModal ==
  /\ Top = "finalize"
  /\ isFinalizeModalOpen' = FALSE
  /\ UNCHANGED <<rows, nextId, bucket, mounted, mloading, maintenanceRequests,
                 isModalOpen, editingMaintenance, beforePhotos,
                 isAfterPhotosModalOpen, selectedMaintenance, afterPhotos,
                 uploadingPhotos, tasks>>
  /\ uploadToast' = FALSE
  /\ UNCHANGED notMaint

\* the finalize form's submit button (disabled while isFinalizingSubmitting),
\* up to the await of the update
finalizeMaintenance_start(v) ==
  /\ Top = "finalize"
  /\ handleFinalizeSubmit(v)
  /\ ~Running("finalizeMaintenance")
  /\ NumTasks < MaxTasks
  /\ Start(Task("finalizeMaintenance", "write", selectedMaintenance, <<>>, <<>>,
                "none", v))
  /\ UNCHANGED <<rows, nextId, bucket, mounted, mloading, maintenanceRequests,
                 isModalOpen, editingMaintenance, beforePhotos,
                 isFinalizeModalOpen, isAfterPhotosModalOpen,
                 selectedMaintenance, afterPhotos, uploadingPhotos>>
  /\ uploadToast' = FALSE
  /\ UNCHANGED notMaint

\* the update returns; on success the after-photos modal replaces the
\* finalize modal
finalizeMaintenance_write ==
  \E t \in Waiting, ok \in BOOLEAN :
    /\ t.op = "finalizeMaintenance" /\ t.pc = "write"
    /\ IF ok
       THEN /\ rows' = UpdateRow(t.id, [rows[t.id] EXCEPT !.status = "completed",
                                                         !.final_value = t.val,
                                                         !.completion_date = TRUE])
            /\ isFinalizeModalOpen' = FALSE
            /\ isAfterPhotosModalOpen' = TRUE
            /\ Continue(t, Reload(t))
       ELSE /\ UNCHANGED <<rows, isFinalizeModalOpen, isAfterPhotosModalOpen>>
            /\ Finish(t)
    /\ UNCHANGED <<nextId, bucket, mounted, mloading, maintenanceRequests,
                   isModalOpen, editingMaintenance, beforePhotos,
                   selectedMaintenance, afterPhotos, uploadingPhotos>>
    /\ uploadToast' = FALSE
    /\ UNCHANGED notMaint

\* ------------------------------------------------------ uploadAfterPhotos
handleAfterPhotoChange(fs) ==
  /\ Top = "after"
  /\ fs # afterPhotos
  /\ afterPhotos' = fs
  /\ UNCHANGED <<rows, nextId, bucket, mounted, mloading, maintenanceRequests,
                 isModalOpen, editingMaintenance, beforePhotos,
                 isFinalizeModalOpen, isAfterPhotosModalOpen,
                 selectedMaintenance, uploadingPhotos, tasks>>
  /\ uploadToast' = FALSE
  /\ UNCHANGED notMaint

removeAfterPhoto(i) ==
  /\ Top = "after"
  /\ i \in 1..Len(afterPhotos)
  /\ afterPhotos' = Remove(afterPhotos, i)
  /\ UNCHANGED <<rows, nextId, bucket, mounted, mloading, maintenanceRequests,
                 isModalOpen, editingMaintenance, beforePhotos,
                 isFinalizeModalOpen, isAfterPhotosModalOpen,
                 selectedMaintenance, uploadingPhotos, tasks>>
  /\ uploadToast' = FALSE
  /\ UNCHANGED notMaint

\* "Pular" / "Fechar"
skipAfterPhotos ==
  /\ Top = "after"
  /\ isAfterPhotosModalOpen' = FALSE
  /\ afterPhotos' = <<>>
  /\ selectedMaintenance' = 0
  /\ UNCHANGED <<rows, nextId, bucket, mounted, mloading, maintenanceRequests,
                 isModalOpen, editingMaintenance, beforePhotos,
                 isFinalizeModalOpen, uploadingPhotos, tasks>>
  /\ uploadToast' = FALSE
  /\ UNCHANGED notMaint

\* "Salvar Fotos" (disabled while uploadingPhotos), up to the first upload;
\* with no photo selected it only closes the modal
uploadAfterPhotos_start ==
  /\ Top = "after"
  /\ ~uploadingPhotos
  /\ IF Len(afterPhotos) = 0
     THEN /\ isAfterPhotosModalOpen' = FALSE
          /\ selectedMaintenance' = 0
          /\ UNCHANGED <<uploadingPhotos, tasks>>
     ELSE /\ NumTasks < MaxTasks
          /\ uploadingPhotos' = TRUE
          /\ Start(FirstUpload("uploadAfterPhotos", selectedMaintenance, afterPhotos))
          /\ UNCHANGED <<isAfterPhotosModalOpen, selectedMaintenance>>
  /\ UNCHANGED <<rows, nextId, bucket, mounted, mloading, maintenanceRequests,
                 isModalOpen, editingMaintenance, beforePhotos,
                 isFinalizeModalOpen, afterPhotos>>
  /\ uploadToast' = FALSE
  /\ UNCHANGED notMaint

\* the update of photos_after returns
uploadAfterPhotos_write ==
  \E t \in Waiting, ok \in BOOLEAN :
    /\ t.op = "uploadAfterPhotos" /\ t.pc = "write"
    /\ IF ok
       THEN /\ rows' = UpdateRow(t.id, [rows[t.id] EXCEPT !.photos_after = t.urls])
            /\ isAfterPhotosModalOpen' = FALSE
            /\ afterPhotos' = <<>>
            /\ selectedMaintenance' = 0
            /\ uploadingPhotos' = uploadingPhotos
            /\ Continue(t, Reload(t))
       ELSE \* throw error: the catch's toast, then the finally block
            /\ uploadingPhotos' = FALSE
            /\ Finish(t)
            /\ UNCHANGED <<rows, isAfterPhotosModalOpen, afterPhotos, selectedMaintenance>>
    /\ UNCHANGED <<nextId, bucket, mounted, mloading, maintenanceRequests,
                   isModalOpen, editingMaintenance, beforePhotos,
                   isFinalizeModalOpen>>
    /\ uploadToast' = FALSE
    /\ UNCHANGED notMaint

\* ============================================================ Dashboard
\* a maintenance request as loadDashboardData selects it: status,
\* final_value (<<>> for NULL), condominium_id (NOT NULL), supplier_id
\* (NULL allowed) and service_types
DashCondominiums == {"c1", "c2"}
DashSuppliers == {NULL, "s1"}
DashServiceTypes == {{}, {"t1"}}
DashValues == {<<>>, <<100>>}

DashRequests ==
  [status : Statuses, final_value : DashValues, condominium_id : DashCondominiums,
   supplier_id : DashSuppliers, service_types : DashServiceTypes]

DashLists == UNION {[1..n -> DashRequests] : n \in 0..MaxDash}

\* what the three drop-downs offer
CondominiumOptions == {"all", "c1"}
SupplierOptions == {"all", "s1"}
ServiceTypeOptions == {"all", "t1"}

Filters(c, s, t) == [c |-> c, s |-> s, t |-> t]

CurrentFilters == Filters(selectedCondominium, selectedSupplier, selectedServiceType)

NoFilters == Filters("none", "none", "none")

\* useState<DashboardStats>({... 0 ...}); `of` and `fetched` remember what
\* the displayed numbers were computed from
NoStats ==
  [of |-> NoFilters, fetched |-> <<>>, filtered |-> 0, openMaintenance |-> 0,
   inProgressMaintenance |-> 0, completedMaintenance |-> 0, totalSpent |-> 0,
   condominiumStats |-> <<>>]

DashIdle ==
  /\ dashRows = <<>>
  /\ dashMounted = FALSE
  /\ selectedCondominium = "all"
  /\ selectedSupplier = "all"
  /\ selectedServiceType = "all"
  /\ stats = NoStats
  /\ dashLoads = EmptyBag
  /\ dashChanges = 0

\* the .then(result => ...) of the maintenance_requests query: one filter
\* after the other, each skipped for 'all'
FilterData(data, f) ==
  LET ByCondominium(m) == m.condominium_id = f.c
      BySupplier(m) == m.supplier_id = f.s
      ByServiceType(m) == f.t \in m.service_types
      d1 == IF f.c # "all" THEN SelectSeq(data, ByCondominium) ELSE data
      d2 == IF f.s # "all" THEN SelectSeq(d1, BySupplier) ELSE d1
  IN  IF f.t # "all" THEN SelectSeq(d2, ByServiceType) ELSE d2

\* maintenanceData.filter(m => m.status === st).length
WithStatus(data, st) ==
  LET Is(m) == m.status = st IN SelectSeq(data, Is)

\* counts every request that is not open
InProgressCountNotOpen(data) == Len(data) - Len(WithStatus(data, "open"))

InProgressCount(data) == Len(WithStatus(data, "in_progress"))

\* m.final_value as a condition: neither null nor 0
Truthy(v) == v # <<>> /\ v[1] # 0

\* .reduce((sum, m) => sum + (m.final_value || 0), 0)
RECURSIVE SumFinalValue(_)
SumFinalValue(data) ==
  IF data = <<>> THEN 0
  ELSE (IF Truthy(Head(data).final_value) THEN Head(data).final_value[1] ELSE 0)
       + SumFinalValue(Tail(data))

\* sums the final values of the requests of every status
TotalSpentAnyStatus(data) == SumFinalValue(data)

\* completedMaintenanceData.filter(m => m.final_value).reduce(...)
TotalSpent(data) ==
  LET HasValue(m) == Truthy(m.final_value)
  IN  SumFinalValue(SelectSeq(WithStatus(data, "completed"), HasValue))

\* m.condominiums?.name: the joined condominium, one name for each here
CondominiumName(m) == m.condominium_id

\* the reduce into condominiumData, then Object.values: one entry for each
\* name, in the order of first appearance
RECURSIVE CondominiumData(_, _)
CondominiumData(acc, data) ==
  IF data = <<>> THEN acc
  ELSE LET m == Head(data)
           n == CondominiumName(m)
           known == \E i \in 1..Len(acc) : acc[i].name = n
           acc1 == IF known THEN acc
                   ELSE Append(acc, [name |-> n, totalMaintenance |-> 0,
                                     openMaintenance |-> 0,
                                     inProgressMaintenance |-> 0,
                                     completedMaintenance |-> 0, totalSpent |-> 0])
           Add(g) ==
             IF g.name # n THEN g
             ELSE [g EXCEPT
                     !.totalMaintenance = @ + 1,
                     !.openMaintenance = IF m.status = "open" THEN @ + 1 ELSE @,
                     !.inProgressMaintenance =
                        IF m.status # "open" /\ m.status = "in_progress" THEN @ + 1 ELSE @,
                     !.completedMaintenance =
                        IF m.status \notin {"open", "in_progress"}
                           /\ m.status = "completed" THEN @ + 1 ELSE @,
                     !.totalSpent = IF Truthy(m.final_value)
                                    THEN @ + m.final_value[1] ELSE @]
       IN  CondominiumData([i \in 1..Len(acc1) |-> Add(acc1[i])], Tail(data))

\* the body of loadDashboardData after Promise.all, for the filters f of the
\* render that called it and the rows the query returned
DashboardStats(fetched, f) ==
  LET maintenanceData == FilterData(fetched, f)
  IN  [of |-> f, fetched |-> fetched, filtered |-> Len(maintenanceData),
       openMaintenance |-> Len(WithStatus(maintenanceData, "open")),
       inProgressMaintenance |-> InProgressCount(maintenanceData),
       completedMaintenance |-> Len(WithStatus(maintenanceData, "completed")),
       totalSpent |-> TotalSpent(maintenanceData),
       condominiumStats |-> CondominiumData(<<>>, maintenanceData)]

\* the effect [user, selectedCondominium, selectedSupplier,
\* selectedServiceType]: loadDashboardData of the new render is called and
\* not awaited (loadCondominiums and loadSuppliers, which fill the drop-downs,
\* are taken as answered)
useEffect_dashboard ==
  /\ ~dashMounted
  /\ dashMounted' = TRUE
  /\ dashLoads' = dashLoads (+) SetToBag({CurrentFilters})
  /\ UNCHANGED <<dashRows, selectedCondominium, selectedSupplier,
                 selectedServiceType, stats, dashChanges>>
  /\ UNCHANGED notDash

\* a drop-down (or clearFilters) sets the three filters to c, s, t; the effect
\* runs for the new render
setFilters(c, s, t) ==
  /\ dashMounted
  /\ dashChanges < MaxChanges
  /\ Filters(c, s, t) # CurrentFilters
  /\ \/ c = selectedCondominium /\ s = selectedSupplier
     \/ c = selectedCondominium /\ t = selectedServiceType
     \/ s = selectedSupplier /\ t = selectedServiceType
     \/ Filters(c, s, t) = Filters("all", "all", "all")
  /\ selectedCondominium' = c
  /\ selectedSupplier' = s
  /\ selectedServiceType' = t
  /\ dashLoads' = dashLoads (+) SetToBag({Filters(c, s, t)})
  /\ dashChanges' = dashChanges + 1
  /\ UNCHANGED <<dashRows, dashMounted, stats>>
  /\ UNCHANGED notDash

\* Promise.all of a loadDashboardData call resolves: the queries answered
\* with the rows, or with an error and no data; setStats
loadDashboardData ==
  \E f \in BagToSet(dashLoads), ok \in BOOLEAN :
    /\ stats' = DashboardStats(IF ok THEN dashRows ELSE <<>>, f)
    /\ dashLoads' = dashLoads (-) SetToBag({f})
    /\ UNCHANGED <<dashRows, dashMounted, selectedCondominium, selectedSupplier,
                   selectedServiceType, dashChanges>>
    /\ UNCHANGED notDash

\* ================================================================ Reports
\* opening dates, and the dates of the report form
ReportDates == {1, 2}

\* the rows the query of generateReport reads; a value column (decimal,
\* nullable) holds <<>> for null; a request has a final value from the moment
\* it is completed (finalizeMaintenance writes both)
ReportRequests ==
  {m \in [status : {"in_progress", "completed"},
          final_value : {<<>>, <<0>>, <<100>>},
          estimated_value : {<<>>, <<50>>},
          condominium_id : {"c1", "c2"},
          service_types : {{}, {"t1"}},
          opening_date : ReportDates] :
     (m.status = "completed") <=> (m.final_value # <<>>)}

ReportLists ==
  UNION {[1..n -> ReportRequests] : n \in 0..MaxReportRows}

\* the fields of the report form the query uses
ReportFormData ==
  [condominium_ids : {{}, {"c1"}}, start_date : ReportDates, end_date : {2}]

ReportsIdle ==
  /\ repRows = <<>>
  /\ reportData = <<>>
  /\ repLoading = FALSE
  /\ repCall = <<>>
  /\ savedReports = 0

\* the query: .gte and .lte on opening_date, .in on condominium_id when
\* condominiums are selected
ReportQuery(stored, data) ==
  LET Matches(m) ==
        /\ m.opening_date >= data.start_date
        /\ m.opening_date <= data.end_date
        /\ data.condominium_ids # {} => m.condominium_id \in data.condominium_ids
  IN  SelectSeq(stored, Matches)

\* m.final_value || m.estimated_value || 0
RequestValue(m) ==
  IF Truthy(m.final_value) THEN m.final_value[1]
  ELSE IF Truthy(m.estimated_value) THEN m.estimated_value[1]
  ELSE 0

\* maintenanceRequests.reduce((sum, m) => sum + (...), 0)
RECURSIVE SumRequestValue(_)
SumRequestValue(fetched) ==
  IF fetched = <<>> THEN 0
  ELSE RequestValue(Head(fetched)) + SumRequestValue(Tail(fetched))

\* a quotient of two numbers, kept exact
Quotient(n, d) == [num |-> n, den |-> d]

\* maintenanceByType: per service type, the count and the value of the
\* requests that carry it
MaintenanceByType(fetched) ==
  LET types == UNION {fetched[i].service_types : i \in DOMAIN fetched}
      Of(t) == SelectSeq(fetched, LAMBDA m : t \in m.service_types)
  IN  [t \in types |-> [count |-> Len(Of(t)), value |-> SumRequestValue(Of(t))]]

\* the aggregates of generateReport
ReportOf(fetched) ==
  LET totalMaintenance == Len(fetched)
      totalValue == SumRequestValue(fetched)
  IN  [totalMaintenance |-> totalMaintenance,
       completedMaintenance |->
         Len(SelectSeq(fetched, LAMBDA m : m.status = "completed")),
       totalValue |-> totalValue,
       averageValue |-> IF totalMaintenance > 0
                        THEN Quotient(totalValue, totalMaintenance)
                        ELSE Quotient(0, 1),
       maintenanceByType |-> MaintenanceByType(fetched),
       maintenanceRequests |-> fetched]

\* the form is submitted (the button is disabled while loading)
generateReport_start(data) ==
  /\ ~repLoading
  /\ repCall = <<>>
  /\ savedReports < MaxReports
  /\ repLoading' = TRUE
  /\ repCall' = <<[pc |-> "query", data |-> data]>>
  /\ UNCHANGED <<repRows, reportData, savedReports>>
  /\ UNCHANGED notReports

\* the query returns: the aggregates are shown, then the report is saved;
\* on an error the alert, then the finally block
generateReport_query ==
  \E ok \in BOOLEAN :
    /\ repCall # <<>> /\ repCall[1].pc = "query"
    /\ IF ok
       THEN /\ reportData' = <<ReportOf(ReportQuery(repRows, repCall[1].data))>>
            /\ repCall' = <<[repCall[1] EXCEPT !.pc = "save"]>>
            /\ repLoading' = repLoading
       ELSE /\ reportData' = reportData
            /\ repCall' = <<>>
            /\ repLoading' = FALSE
    /\ UNCHANGED <<repRows, savedReports>>
    /\ UNCHANGED notReports

\* the insert into reports returns (its result is not looked at), then the
\* finally block
generateReport_save ==
  \E ok \in BOOLEAN :
    /\ repCall # <<>> /\ repCall[1].pc = "save"
    /\ savedReports' = IF ok THEN savedReports + 1 ELSE savedReports
    /\ repCall' = <<>>
    /\ repLoading' = FALSE
    /\ UNCHANGED <<repRows, reportData>>
    /\ UNCHANGED notReports

\* ============================================================ exportToPDF
\* html2canvas(element, {scale: 2, ...})
scale == 2
\* the width and the height of an A4 page as exportToPDF uses them, in mm
imgWidth == 210
pageHeight == 295

\* the widths in CSS pixels the report is rendered at
ScrollWidths == {210, 420}
ScrollHeights == 1..MaxScrollHeight

\* lengths in mm are fractions over canvas.width: heightLeft, position and
\* imgHeight hold the numerators, so that
\* imgHeight = (canvas.height * imgWidth) / canvas.width is exact
NoExport ==
  [pc |-> "idle", width |-> 0, height |-> 0, imgHeight |-> 0,
   heightLeft |-> 0, position |-> 0, pages |-> 0, exports |-> 0]

PDFIdle == pdf = NoExport

\* "Exportar PDF" is clicked on a rendered report: html2canvas is called with
\* the element's scrollWidth and scrollHeight
exportToPDF_start(scrollWidth, scrollHeight) ==
  /\ reportData # <<>>
  /\ pdf.pc \in {"idle", "saved", "failed"}
  /\ pdf.exports < MaxExports
  /\ pdf' = [NoExport EXCEPT !.pc = "html2canvas",
                             !.exports = pdf.exports + 1,
                             !.width = scale * scrollWidth,
                             !.height = scale * scrollHeight]
  /\ UNCHANGED notPDF
  /\ UNCHANGED repVars

\* html2canvas resolves: new jsPDF (one page), the image is placed at 0 and
\* heightLeft -= pageHeight; or it rejects: the alert
exportToPDF_canvas ==
  \E ok \in BOOLEAN :
    /\ pdf.pc = "html2canvas"
    /\ pdf' = IF ok
              THEN [pdf EXCEPT !.pc = "while",
                               !.imgHeight = pdf.height * imgWidth,
                               !.heightLeft = pdf.height * imgWidth
                                                - pageHeight * pdf.width,
                               !.position = 0,
                               !.pages = 1]
              ELSE [pdf EXCEPT !.pc = "failed"]
    /\ UNCHANGED notPDF
    /\ UNCHANGED repVars

\* while (heightLeft >= 0)
LoopGuard(heightLeft) == heightLeft >= 0

\* one turn of the loop: position = heightLeft - imgHeight, addPage,
\* addImage, heightLeft -= pageHeight
exportToPDF_addPage ==
  /\ pdf.pc = "while"
  /\ LoopGuard(pdf.heightLeft)
  /\ pdf' = [pdf EXCEPT !.position = pdf.heightLeft - pdf.imgHeight,
                        !.pages = pdf.pages + 1,
                        !.heightLeft = pdf.heightLeft - pageHeight * pdf.width]
  /\ UNCHANGED notPDF
  /\ UNCHANGED repVars

\* the loop is left: pdf.save(...)
exportToPDF_save ==
  /\ pdf.pc = "while"
  /\ ~LoopGuard(pdf.heightLeft)
  /\ pdf' = [pdf EXCEPT !.pc = "saved"]
  /\ UNCHANGED notPDF
  /\ UNCHANGED repVars

\* ------------------------------------------------------------- SpecAuth
\* "e2" is a subscriber of long standing, "e1" has no account yet; the tab
\* has just loaded the app at some URL.
InitAuth ==
  /\ accounts = {"e2"}
  /\ subStatus = [e \in Emails |-> IF e = "e2" THEN "active" ELSE "none"]
  /\ checkout = [e \in Emails |-> IF e = "e2" THEN "paid" ELSE "none"]
  /\ session \in {NULL, "e2"}
  /\ site = "app"
  /\ path \in Paths
  /\ payToast = "none"
  /\ user = NULL
  /\ loading = TRUE
  /\ init = InitStart
  /\ handlers = [i \in 1..MaxHandlers |-> Idle]
  /\ form = FormInit
  /\ hps = HpsIdle
  /\ admitBy = NoLookup
  /\ returned = NULL
  /\ callFailed = FALSE
  /\ untoasted = FALSE
  /\ MaintIdle
  /\ RLSIdle
  /\ DashIdle
  /\ ReportsIdle
  /\ PDFIdle

NextAuth ==
  \/ \E i \in 1..MaxHandlers : onAuthStateChange(i)
  \/ AuthEvent
  \/ initializeAuth_getSession
  \/ initializeAuth_lookup
  \/ initializeAuth_signOut
  \/ toggleSignUp
  \/ \E e \in Emails, c \in BOOLEAN : onSignUp(e, c)
  \/ backToSignUp
  \/ handlePlanSelection_start
  \/ handlePlanSelection_signUp
  \/ handlePlanSelection_checkout
  \/ \E e \in Emails : onSignIn(e)
  \/ signOut
  \/ \E p \in Paths : navigate(p)
  \/ stripePaid
  \/ stripeCancelled
  \/ \E e \in Emails, s \in SubStatuses : subscriptionActivated(e, s)
  \/ \E e \in Emails, s \in SubStatuses : subscriptionEnded(e, s)

SpecAuth == InitAuth /\ [][NextAuth]_vars

\* --------------------------------------------------------- SpecMaint
\* the Maintenance page is reached by a signed-in subscriber
InitMaint ==
  /\ AuthAdmitted("/maintenance")
  /\ MaintIdle
  /\ RLSIdle
  /\ DashIdle
  /\ ReportsIdle
  /\ PDFIdle

NextMaint ==
  \/ useEffect_mount
  \/ loadMaintenanceRequests_returns
  \/ loadCondominiums_returns
  \/ loadSuppliers_returns
  \/ \E m \in {0} \cup ReqIds : openModal(m)
  \/ closeModal
  \/ \E fs \in FileLists : handleBeforePhotoChange(fs)
  \/ \E i \in Files : removeBeforePhoto(i)
  \/ uploadPhotos_upload
  \/ uploadPhotos_createBucket
  \/ uploadPhotos_retry
  \/ \E data \in MaintenanceForm : onSubmit_start(data)
  \/ onSubmit_write
  \/ \E id \in ReqIds : deleteMaintenance_start(id)
  \/ deleteMaintenance_write
  \/ \E id \in ReqIds : updateStatus_start(id)
  \/ updateStatus_write
  \/ \E id \in ReqIds : openFinalizeModal(id)
  \/ closeFinalizeModal
  \/ \E v \in FinalValues : finalizeMaintenance_start(v)
  \/ finalizeMaintenance_write
  \/ \E fs \in FileLists : handleAfterPhotoChange(fs)
  \/ \E i \in Files : removeAfterPhoto(i)
  \/ skipAfterPhotos
  \/ uploadAfterPhotos_start
  \/ uploadAfterPhotos_write

SpecMaint == InitMaint /\ [][NextMaint]_vars

\* SpecFinalize: the Maintenance page of an admitted subscriber who has
\* requests in progress, and the controls that finalize them: the finalize
\* modal, finalizeMaintenance, the after-photos modal, uploadAfterPhotos
InProgressRow ==
  [NewRow(<<>>) EXCEPT !.status = "in_progress", !.start_date = TRUE]

InitFinalize ==
  /\ AuthAdmitted("/maintenance")
  /\ rows = [i \in ReqIds |-> InProgressRow]
  /\ nextId = MaxStored
  /\ bucket = FALSE
  /\ mounted = FALSE
  /\ mloading = TRUE
  /\ maintenanceRequests = [i \in ReqIds |-> "absent"]
  /\ isModalOpen = FALSE
  /\ editingMaintenance = 0
  /\ beforePhotos = <<>>
  /\ isFinalizeModalOpen = FALSE
  /\ isAfterPhotosModalOpen = FALSE
  /\ selectedMaintenance = 0
  /\ afterPhotos = <<>>
  /\ uploadingPhotos = FALSE
  /\ tasks = EmptyBag
  /\ uploadToast = FALSE
  /\ RLSIdle
  /\ DashIdle
  /\ ReportsIdle
  /\ PDFIdle

NextFinalize ==
  \/ useEffect_mount
  \/ loadMaintenanceRequests_returns
  \/ loadCondominiums_returns
  \/ loadSuppliers_returns
  \/ \E id \in ReqIds : openFinalizeModal(id)
  \/ closeFinalizeModal
  \/ \E v \in FinalValues : finalizeMaintenance_start(v)
  \/ finalizeMaintenance_write
  \/ \E fs \in FileLists : handleAfterPhotoChange(fs)
  \/ \E i \in Files : removeAfterPhoto(i)
  \/ skipAfterPhotos
  \/ uploadAfterPhotos_start
  \/ uploadAfterPhotos_write
  \/ uploadPhotos_upload
  \/ uploadPhotos_createBucket
  \/ uploadPhotos_retry

SpecFinalize == InitFinalize /\ [][NextFinalize]_vars

\* ----------------------------------------------------------- SpecRLS
\* the users' pages query the tables; an id that reaches an update or a
\* delete is any id
InitRLS ==
  /\ AuthAdmitted("/maintenance")
  /\ MaintIdle
  /\ RLSIdle
  /\ DashIdle
  /\ ReportsIdle
  /\ PDFIdle

NextRLS ==
  \/ \E a \in Users, tbl \in Tables : rlsSelect(a, tbl)
  \/ \E a \in Users, tbl \in Tables, c \in 0..MaxRows, s \in 0..MaxRows :
       rlsInsert(a, tbl, c, s)
  \/ \E a \in Users, id \in 1..MaxRows : rlsUpdate(a, id)
  \/ \E a \in Users, id \in 1..MaxRows : rlsDelete(a, id)
  \/ \E a \in Users : loadProfile(a)

SpecRLS == InitRLS /\ [][NextRLS]_vars

\* ---------------------------------------------------------- SpecDash
InitDash ==
  /\ AuthAdmitted("/")
  /\ MaintIdle
  /\ RLSIdle
  /\ dashRows \in DashLists
  /\ dashMounted = FALSE
  /\ selectedCondominium = "all"
  /\ selectedSupplier = "all"
  /\ selectedServiceType = "all"
  /\ stats = NoStats
  /\ dashLoads = EmptyBag
  /\ dashChanges = 0
  /\ ReportsIdle
  /\ PDFIdle

NextDash ==
  \/ useEffect_dashboard
  \/ \E c \in CondominiumOptions, s \in SupplierOptions, t \in ServiceTypeOptions :
       setFilters(c, s, t)
  \/ loadDashboardData

SpecDash == InitDash /\ [][NextDash]_vars

\* SpecReports: the Reports page of an admitted subscriber, over any small
\* list of maintenance requests
InitReports ==
  /\ AuthAdmitted("/reports")
  /\ MaintIdle
  /\ RLSIdle
  /\ DashIdle
  /\ repRows \in ReportLists
  /\ reportData = <<>>
  /\ repLoading = FALSE
  /\ repCall = <<>>
  /\ savedReports = 0
  /\ PDFIdle

NextReports ==
  \/ \E data \in ReportFormData : generateReport_start(data)
  \/ generateReport_query
  \/ generateReport_save

SpecReports == InitReports /\ [][NextReports]_vars


\* SpecPDF: the Reports page showing a generated report (of a period without
\* maintenance requests) that has been saved
InitPDF ==
  /\ AuthAdmitted("/reports")
  /\ MaintIdle
  /\ RLSIdle
  /\ DashIdle
  /\ repRows = <<>>
  /\ reportData = <<ReportOf(<<>>)>>
  /\ repLoading = FALSE
  /\ repCall = <<>>
  /\ savedReports = 1
  /\ PDFIdle

NextPDF ==
  \/ \E scrollWidth \in ScrollWidths, scrollHeight \in ScrollHeights :
       exportToPDF_start(scrollWidth, scrollHeight)
  \/ exportToPDF_canvas
  \/ exportToPDF_addPage
  \/ exportToPDF_save

SpecPDF == InitPDF /\ [][NextPDF]_vars

\* the synchronous part of exportToPDF runs to its end once it has begun
SpecPDFRuns ==
  SpecPDF /\ WF_vars(exportToPDF_addPage) /\ WF_vars(exportToPDF_save)



\* ==================================================== claims, SpecAuth
NoHandlerWaiting == \A i \in 1..MaxHandlers : handlers[i] = Idle

\* C1: in every reachable state the context user is non-null only if a
\* stripe_user_subscriptions lookup made for that session's user returned
\* 'active' or 'trialing'; no row or any other status never admits.
C1_SubscriptionGating ==
  user # NULL => /\ admitBy.who = user
                 /\ admitBy.status \in {"active", "trialing"}

\* the new account "e1" is admitted on a lookup that returned 'trialing'
C1_Witness == user = "e1" /\ admitBy = [who |-> "e1", status |-> "trialing"]

\* C2: once the router is mounted, a protected location is shown (and its
\* page rendered) only with a non-null user, and /auth is shown (the form
\* rendered) only with a null user; nothing is left on a <Navigate>.
C2_RouteGuarding ==
  (site = "app" /\ ~loading) =>
     /\ Rendered \in ProtectedPages => (user # NULL /\ path \in ProtectedPaths)
     /\ Rendered = "AuthForm" => (user = NULL /\ path = "/auth")
     /\ path \in ProtectedPaths => Rendered = PageOf(path)
     /\ path = "/auth" => Rendered = "AuthForm"
     /\ Rendered \in ProtectedPages \cup {"AuthForm", "PaymentSuccess"}

\* the subscriber "e2" is on the Maintenance page
C2_Witness == site = "app" /\ Rendered = "Maintenance" /\ user = "e2"

\* C3: in handlePlanSelection the checkout call is issued only after signUp
\* returned a user without error; the browser goes to the payment page only
\* after the checkout call returned a url without error; every run that ends
\* without the redirect has shown an error toast and left loading false.
C3_SignupThenPay ==
  /\ hps.checkoutInvoked => hps.signUpRes = "user"
  /\ hps.pc = "checkout" => hps.checkoutInvoked
  /\ hps.redirected => (hps.checkoutInvoked /\ hps.checkoutRes = "url")
  /\ site = "stripe" => (hps.pc = "done" /\ hps.redirected)
  /\ (hps.pc = "done" /\ ~hps.redirected) => (hps.toasted /\ ~form.loading)
  /\ hps.redirected => ~hps.toasted

\* a run that created the account, got a url and left for the payment page
C3_Witness ==
  /\ site = "stripe" /\ hps.redirected /\ hps.email = "e1"
  /\ "e1" \in accounts /\ checkout["e1"] = "open"

\* C4: a user who signed up through handlePlanSelection, came back from a
\* paid checkout and whose subscription is 'active' or 'trialing' is admitted
\* with the session created at sign-up once no auth check is pending any
\* more, whatever the order of initializeAuth's check and the activation
\* (no remote call having failed, no sign-in or sign-out by the person).
C4_AccessAfterPayment ==
  ( /\ site = "app"
    /\ returned # NULL
    /\ subStatus[returned] \in {"active", "trialing"}
    /\ ~callFailed
    /\ init.pc = "done"
    /\ NoHandlerWaiting )
  => (user = returned /\ session = returned)

\* C5: a sign-up run by someone whose checkout was cancelled after the
\* account was created, with the same e-mail, gets past the account creation
\* and invokes stripe-checkout.
C5_RetryAfterCancel ==
  (hps.pc = "done" /\ hps.retry) => hps.checkoutInvoked

\* what the code does instead: no such run ever gets to the checkout call
C5_RetryNeverReachesCheckout == hps.retry => ~hps.checkoutInvoked

\* C6: every remote call that returned an error or threw has been surfaced
\* as an error toast by the time its handler ended.
C6_FailuresToasted == ~untoasted

\* =============================================================== C7 .. C10
\* remote calls in flight, over all handler invocations of the page
RECURSIVE CallsOf(_)
CallsOf(ts) ==
  IF ts = {} THEN 0
  ELSE LET t == CHOOSE x \in ts : TRUE
       IN  tasks[t] * t.n + CallsOf(ts \ {t})

CallsInFlight == CallsOf(Waiting)

StatusStep(old, new) ==
  \/ new = old
  \/ new = "absent"
  \/ old = "absent" /\ new = "open"
  \/ old = "open" /\ new = "in_progress"
  \/ old = "in_progress" /\ new = "completed"

C9_StatusWorkflow ==
  [][\A id \in ReqIds :
       /\ rows'[id].status \in Statuses \cup {"absent"}
       /\ StatusStep(rows[id].status, rows'[id].status)]_vars

\* C10: in_progress or completed implies start_date; completed implies
\* completion_date and final_value; final_value only when completed
C10_CostAndDatesFollowStatus ==
  \A id \in ReqIds :
    rows[id] # NoRow =>
      /\ rows[id].status \in {"in_progress", "completed"} => rows[id].start_date
      /\ rows[id].status = "completed" =>
           rows[id].completion_date /\ rows[id].final_value # <<>>
      /\ rows[id].final_value # <<>> => rows[id].status = "completed"

Passes(m, f) ==
  /\ f.c = "all" \/ m.condominium_id = f.c
  /\ f.s = "all" \/ m.supplier_id = f.s
  /\ f.t = "all" \/ f.t \in m.service_types

RECURSIVE SumOver(_, _)
SumOver(S, data) ==
  IF S = {} THEN 0
  ELSE LET i == CHOOSE j \in S : TRUE
       IN  (IF data[i].final_value = <<>> THEN 0 ELSE data[i].final_value[1])
           + SumOver(S \ {i}, data)

RECURSIVE SumTotals(_)
SumTotals(groups) ==
  IF groups = <<>> THEN 0
  ELSE Head(groups).totalMaintenance + SumTotals(Tail(groups))

\* C12: totalSpent is the sum of final_value over exactly the fetched
\* requests that are completed and pass every active filter
C12_TotalSpent ==
  stats.of # NoFilters =>
    stats.totalSpent =
      SumOver({i \in 1..Len(stats.fetched) :
                 /\ stats.fetched[i].status = "completed"
                 /\ Passes(stats.fetched[i], stats.of)}, stats.fetched)

\* a load has answered with two requests of which the filters pass only one,
\* a completed one with a final value
C12_Witness ==
  /\ stats.of # NoFilters
  /\ stats.of # Filters("all", "all", "all")
  /\ Len(stats.fetched) = 2
  /\ stats.filtered = 1
  /\ stats.totalSpent > 0

\* C13: the three status counts add up to the number of filtered requests,
\* each condominium group's total is the sum of its three counts, and the
\* groups' totals add up to the number of filtered requests
C13_CountsPartition ==
  /\ stats.openMaintenance + stats.inProgressMaintenance
       + stats.completedMaintenance = stats.filtered
  /\ stats.filtered =
       Cardinality({i \in 1..Len(stats.fetched) : Passes(stats.fetched[i], stats.of)})
  /\ \A i \in 1..Len(stats.condominiumStats) :
       LET g == stats.condominiumStats[i]
       IN  g.totalMaintenance =
             g.openMaintenance + g.inProgressMaintenance + g.completedMaintenance
  /\ SumTotals(stats.condominiumStats) = stats.filtered

\* two filtered requests of different status in two condominium groups
C13_Witness ==
  /\ stats.filtered = 2
  /\ Len(stats.condominiumStats) = 2
  /\ stats.completedMaintenance = 1
  /\ stats.inProgressMaintenance = 1

\* the numbers on the page
Displayed(st) ==
  [st EXCEPT !.of = NoFilters, !.fetched = <<>>]

\* C18: when all loads in flight have completed, the displayed stats are the
\* ones computed for the currently selected filters
C18_StatsOfCurrentFilters ==
  (dashMounted /\ dashLoads = EmptyBag) =>
    Displayed(stats) = Displayed(DashboardStats(stats.fetched, CurrentFilters))

\* C14: a condominium is required: the insert or update of onSubmit is never
\* issued with an empty condominium_id, because a submit of the form with no
\* condominium selected is rejected by the form's validation
C14_CondominiumRequired ==
  \A t \in Waiting :
    (t.op = "onSubmit" /\ t.pc = "write") => t.condominium_id # ""

\* C15: the final value must be positive: finalizeMaintenance runs, and a
\* request is completed, only with a final_value greater than zero
C15_FinalValuePositive ==
  /\ \A t \in Waiting :
       (t.op = "finalizeMaintenance" /\ t.pc = "write")
         => (t.val # <<>> /\ t.val[1] > 0)
  /\ \A id \in ReqIds :
       rows[id].status = "completed"
         => (rows[id].final_value # <<>> /\ rows[id].final_value[1] > 0)

\* C16: the aggregates of a report: totalMaintenance counts every fetched
\* request; a request is valued at its final value when one is recorded,
\* otherwise at its estimated value, and at 0 when it has neither;
\* totalValue is the sum of those values; averageValue is totalValue
\* divided by totalMaintenance, and 0 without requests;
\* completedMaintenance never exceeds totalMaintenance
RecordedValue(m) ==
  IF m.final_value # <<>> THEN m.final_value[1]
  ELSE IF m.estimated_value # <<>> THEN m.estimated_value[1]
  ELSE 0

RECURSIVE SumRecordedValue(_)
SumRecordedValue(fetched) ==
  IF fetched = <<>> THEN 0
  ELSE RecordedValue(Head(fetched)) + SumRecordedValue(Tail(fetched))

C17_SignOutWins ==
  [][(session = NULL /\ user = NULL /\ session' = NULL) => user' = NULL]_vars

\* C19: a user without an active subscription is logged out: when the
\* onAuthStateChange handler finds that the user of a session has no
\* subscription that is active or trialing, no backend session remains and
\* user is null; initializeAuth ends its lookup without admitting the user
\* only through the sign-out call, after which user is null
C19_LoggedOutWithoutSubscription ==
  [][/\ (\E i \in 1..MaxHandlers :
           /\ handlers[i] # Idle /\ handlers'[i] = Idle
           /\ ~loading' /\ user' = NULL)
        => session' = NULL
     /\ (init.pc = "lookup" /\ init'.pc = "done") => user' # NULL
     /\ (init.pc = "signOut" /\ init'.pc = "done") => user' = NULL]_vars

\* C20: the subscription-required notice is for previously admitted users
\* only: when the onAuthStateChange handler rejects a session for lack of an
\* active or trialing subscription, it shows the toast if and only if the
\* context user was non-null immediately before the event
C20_NoticeIffAdmittedBefore ==
  \A i \in 1..MaxHandlers :
    handlers[i] # Idle =>
      \A sub \in LookupResults(handlers[i].sess) :
        ~IsActiveSubscription(sub) => (HandlerToasts(sub) <=> handlers[i].hadUser)

\* C21: editing keeps existing photos: when the update of an edited request
\* returns and no new before-photo was selected, the stored photos_before,
\* photos_after, status, final_value and dates of the request are unchanged
C21_EditKeepsPhotos ==
  [][\A t \in Waiting :
       (/\ t.op = "onSubmit" /\ t.pc = "write"
        /\ t.id # 0 /\ t.urls = <<>>
        /\ tasks' = (tasks (-) SetToBag({t})) (+) SetToBag({Reload(t)}))
         => rows'[t.id] = rows[t.id]]_vars

\* C22: a failed photo upload writes nothing: when uploadPhotos throws in
\* onSubmit, the invocation ends without its insert or update (no row
\* changes), the modal, editingMaintenance and the selected beforePhotos are
\* as they were, the error toast is shown and uploadingPhotos is false; and
\* whenever an invocation of onSubmit or uploadAfterPhotos ends,
\* uploadingPhotos is false
Uploading == {"upload", "createBucket", "retry"}

C22_FailedUploadWritesNothing ==
  [][\A t \in Waiting :
       (t.op \in {"onSubmit", "uploadAfterPhotos"}
        /\ tasks' = tasks (-) SetToBag({t}))
         => /\ ~uploadingPhotos'
            /\ (t.op = "onSubmit" /\ t.pc \in Uploading)
                 => /\ rows' = rows /\ nextId' = nextId
                    /\ isModalOpen' = isModalOpen
                    /\ editingMaintenance' = editingMaintenance
                    /\ beforePhotos' = beforePhotos
                    /\ uploadToast']_vars

\* the upload of onSubmit has just thrown: the form is still open with its
\* photos, the toast is shown
C22_Witness ==
  /\ uploadToast /\ ~uploadingPhotos
  /\ Top = "edit" /\ beforePhotos # <<>>
  /\ ~Running("onSubmit")

\* C23: selected photos are never attached to another request: beforePhotos
\* is non-empty only while the create/edit modal is open, afterPhotos is
\* non-empty only while the after-photos modal is open, and the update of
\* uploadAfterPhotos writes photos_after only to a request that
\* finalizeMaintenance has completed
C23_PhotosStayWithTheirRequest ==
  [][/\ beforePhotos' # <<>> => isModalOpen'
     /\ afterPhotos' # <<>> => (isAfterPhotosModalOpen' /\ selectedMaintenance' # 0)
     /\ \A id \in ReqIds :
          rows'[id].photos_after # rows[id].photos_after
            => rows[id].status = "completed"]_vars

\* C24: records can be created by any admitted user: no insert of a
\* condominium, supplier, maintenance request or report fails on the foreign
\* key from user_id to profiles, whatever the user did before
C24_InsertFindsProfile ==
  rlast.op = "insert" => rlast.error # "user_id_fkey"

\* C25: deletes keep references consistent: every maintenance request names
\* an existing condominium, and no supplier or an existing one; a delete of
\* a condominium leaves no request that referenced it, a delete of a supplier
\* leaves every request that referenced it in place, with supplier_id null
RowsOf(tbl, db) == {r \in db : r.tbl = tbl}

C25_ReferencesConsistent ==
  [][/\ \A m \in RowsOf("maintenance_requests", rdb') :
          /\ \E c \in RowsOf("condominiums", rdb') : c.id = m.cond
          /\ m.supp = 0 \/ \E p \in RowsOf("suppliers", rdb') : p.id = m.supp
     /\ \A g \in rdb \ rdb' :
          /\ g.tbl = "condominiums" =>
               ~\E m \in RowsOf("maintenance_requests", rdb') : m.cond = g.id
          /\ g.tbl = "suppliers" =>
               \A m \in RowsOf("maintenance_requests", rdb) :
                 m.supp = g.id =>
                   \E n \in RowsOf("maintenance_requests", rdb') :
                     n.id = m.id /\ n.supp = 0]_vars

\* a supplier that a request referenced has just been deleted, and the
\* request is still there
C25_Witness ==
  /\ rlast.op = "delete"
  /\ \E g \in rlast.changed : g.tbl = "suppliers"
  /\ \E m \in rlast.changed :
       /\ m.tbl = "maintenance_requests" /\ m.supp = rlast.id
       /\ \E n \in rdb : n.id = m.id /\ n.supp = 0

\* C26: the page loop of exportToPDF terminates for every image height, and
\* the saved PDF has exactly ceil(imgHeight / pageHeight) pages, also when
\* imgHeight is an exact multiple of pageHeight
Ceil(n, d) == (n + d - 1) \div d

C26_PageLoopTerminates == (pdf.pc = "while") ~> (pdf.pc = "saved")

C26_PageCount ==
  pdf.pc = "saved" => pdf.pages = Ceil(pdf.imgHeight, pageHeight * pdf.width)

====
